---------------------------- MODULE Spec2Model ----------------------------
(***************************************************************************)
(* FX Rates Dashboard: the watchlist store (utils/storage: loadWatchlist,  *)
(* saveWatchlist) and the Watchlist page component that owns the list of    *)
(* tracked pairs (onAdd, onRemove, the persisting effect); and the History  *)
(* page: its fetch window (isoDateUTC, daysAgoUTC), chart series and        *)
(* statistics.                                                              *)
(*                                                                          *)
(* Strings are sequences of one-character strings, so that toUpperCase,     *)
(* the key `${base}-${target}`, JSON.stringify and JSON.parse are computed  *)
(* character by character.                                                  *)
(***************************************************************************)
EXTENDS Integers, Sequences, FiniteSets, TLC

(***************************************************************************)
(* Bounds of the model.                                                     *)
(***************************************************************************)
\* longest array drawn as persisted content / longest list handed to the store
MaxLen == 3
\* longest watchlist the page component is driven to by adds
MaxPairs == 3

(***************************************************************************)
(* Strings.                                                                 *)
(***************************************************************************)
USD == <<"U", "S", "D">>
MXN == <<"M", "X", "N">>
EUR == <<"E", "U", "R">>
GBP == <<"G", "B", "P">>
usd == <<"u", "s", "d">>
mxn == <<"m", "x", "n">>
Empty == <<>>
Hyphen == <<"-">>
Quote == "\""
Backslash == "\\"

\* String.prototype.toUpperCase on the letters the model uses
UpperOf == [a |-> "A", b |-> "B", c |-> "C", d |-> "D", e |-> "E", f |-> "F",
            g |-> "G", h |-> "H", i |-> "I", j |-> "J", k |-> "K", l |-> "L",
            m |-> "M", n |-> "N", o |-> "O", p |-> "P", q |-> "Q", r |-> "R",
            s |-> "S", t |-> "T", u |-> "U", v |-> "V", w |-> "W", x |-> "X",
            y |-> "Y", z |-> "Z"]

toUpperCase(str) ==
    [i \in 1..Len(str) |-> IF str[i] \in DOMAIN UpperOf THEN UpperOf[str[i]] ELSE str[i]]

\* the template literal `${base}-${target}`
KeyOf(b, t) == b \o Hyphen \o t

(***************************************************************************)
(* JSON values.  Every value has the same five fields so that values of     *)
(* different JSON types can sit in one array: t is the type, n the number   *)
(* (or 1/0 for true/false), s the string, m the members of an object (a     *)
(* function from property names to values), a the elements of an array.     *)
(***************************************************************************)
JV(t, n, s, m, a) == [t |-> t, n |-> n, s |-> s, m |-> m, a |-> a]
NoMembers == [k \in {} |-> 0]
JUndefined == JV("undefined", 0, <<>>, NoMembers, <<>>)
JNull == JV("null", 0, <<>>, NoMembers, <<>>)
JBool(b) == JV("bool", IF b THEN 1 ELSE 0, <<>>, NoMembers, <<>>)
JNum(n) == JV("num", n, <<>>, NoMembers, <<>>)
JStr(s) == JV("str", 0, s, NoMembers, <<>>)
JObj(m) == JV("obj", 0, <<>>, m, <<>>)
JArr(a) == JV("arr", 0, <<>>, NoMembers, a)

baseKey == <<"b", "a", "s", "e">>
targetKey == <<"t", "a", "r", "g", "e", "t">>

(***************************************************************************)
(* JSON.stringify of a WatchPair[]: no white space, properties in creation  *)
(* order (base, target), the quote and the backslash escaped.               *)
(***************************************************************************)
\* JSON.stringify that escapes nothing
EscapeNone(str) == str

RECURSIVE Escape(_)
Escape(str) ==
    IF str = <<>> THEN <<>>
    ELSE (IF Head(str) \in {Quote, Backslash} THEN <<Backslash, Head(str)>> ELSE <<Head(str)>>)
         \o Escape(Tail(str))

StrLit(str) == <<Quote>> \o Escape(str) \o <<Quote>>

PairText(p) ==
    <<"{">> \o StrLit(baseKey) \o <<":">> \o StrLit(p.base) \o <<",">>
            \o StrLit(targetKey) \o <<":">> \o StrLit(p.target) \o <<"}">>

RECURSIVE JoinTexts(_)
JoinTexts(texts) ==
    IF texts = <<>> THEN <<>>
    ELSE IF Len(texts) = 1 THEN texts[1]
    ELSE texts[1] \o <<",">> \o JoinTexts(Tail(texts))

ArrayText(texts) == <<"[">> \o JoinTexts(texts) \o <<"]">>

JSONStringify(pairs) == ArrayText([i \in 1..Len(pairs) |-> PairText(pairs[i])])

(***************************************************************************)
(* JSON.parse: a recursive-descent parser over the characters.  It throws   *)
(* (ok = FALSE) on anything that is not one JSON value followed by nothing  *)
(* but white space.  Numbers are integers; string escapes are \" and \\.    *)
(***************************************************************************)
Digits == <<"0", "1", "2", "3", "4", "5", "6", "7", "8", "9">>
IsDigit(c) == \E k \in 1..10 : Digits[k] = c
DigitVal(c) == (CHOOSE k \in 1..10 : Digits[k] = c) - 1

\* the character at position i, "" past the end
At(txt, i) == IF i >= 1 /\ i <= Len(txt) THEN txt[i] ELSE ""
Matches(txt, i, word) ==
    i + Len(word) - 1 <= Len(txt) /\ SubSeq(txt, i, i + Len(word) - 1) = word

ParseFail == [ok |-> FALSE, val |-> JUndefined, pos |-> 0]
ParseOk(v, p) == [ok |-> TRUE, val |-> v, pos |-> p]

RECURSIVE SkipWs(_, _)
SkipWs(txt, i) == IF At(txt, i) = " " THEN SkipWs(txt, i + 1) ELSE i

RECURSIVE ParseChars(_, _, _)
ParseChars(txt, i, acc) ==
    LET c == At(txt, i) IN
    IF c = "" THEN ParseFail
    ELSE IF c = Quote THEN ParseOk(JStr(acc), i + 1)
    ELSE IF c = Backslash
         THEN IF At(txt, i + 1) \in {Quote, Backslash}
              THEN ParseChars(txt, i + 2, Append(acc, At(txt, i + 1)))
              ELSE ParseFail
    ELSE ParseChars(txt, i + 1, Append(acc, c))

RECURSIVE ParseDigits(_, _, _)
ParseDigits(txt, i, acc) ==
    IF IsDigit(At(txt, i))
    THEN ParseDigits(txt, i + 1, 10 * acc + DigitVal(At(txt, i)))
    ELSE ParseOk(JNum(acc), i)

ParseNumber(txt, i) ==
    LET neg == At(txt, i) = "-"
        j == IF neg THEN i + 1 ELSE i
    IN  IF ~IsDigit(At(txt, j)) THEN ParseFail
        ELSE IF At(txt, j) = "0" /\ IsDigit(At(txt, j + 1)) THEN ParseFail
        ELSE LET r == ParseDigits(txt, j, 0)
             IN  IF neg THEN ParseOk(JNum(0 - r.val.n), r.pos) ELSE r

RECURSIVE ParseValue(_, _), ParseElements(_, _, _), ParseMembers(_, _, _)
ParseValue(txt, i0) ==
    LET i == SkipWs(txt, i0)
        c == At(txt, i)
    IN  IF c = "n" THEN (IF Matches(txt, i, <<"n", "u", "l", "l">>)
                         THEN ParseOk(JNull, i + 4) ELSE ParseFail)
        ELSE IF c = "t" THEN (IF Matches(txt, i, <<"t", "r", "u", "e">>)
                              THEN ParseOk(JBool(TRUE), i + 4) ELSE ParseFail)
        ELSE IF c = "f" THEN (IF Matches(txt, i, <<"f", "a", "l", "s", "e">>)
                              THEN ParseOk(JBool(FALSE), i + 5) ELSE ParseFail)
        ELSE IF c = Quote THEN ParseChars(txt, i + 1, <<>>)
        ELSE IF c = "[" THEN (IF At(txt, SkipWs(txt, i + 1)) = "]"
                              THEN ParseOk(JArr(<<>>), SkipWs(txt, i + 1) + 1)
                              ELSE ParseElements(txt, i + 1, <<>>))
        ELSE IF c = "{" THEN (IF At(txt, SkipWs(txt, i + 1)) = "}"
                              THEN ParseOk(JObj(NoMembers), SkipWs(txt, i + 1) + 1)
                              ELSE ParseMembers(txt, i + 1, NoMembers))
        ELSE IF c = "-" \/ IsDigit(c) THEN ParseNumber(txt, i)
        ELSE ParseFail

ParseElements(txt, i, acc) ==
    LET r == ParseValue(txt, i) IN
    IF ~r.ok THEN ParseFail
    ELSE LET j == SkipWs(txt, r.pos) IN
         IF At(txt, j) = "," THEN ParseElements(txt, j + 1, Append(acc, r.val))
         ELSE IF At(txt, j) = "]" THEN ParseOk(JArr(Append(acc, r.val)), j + 1)
         ELSE ParseFail

ParseMembers(txt, i, acc) ==
    LET j == SkipWs(txt, i) IN
    IF At(txt, j) # Quote THEN ParseFail
    ELSE LET k == ParseChars(txt, j + 1, <<>>) IN
         IF ~k.ok THEN ParseFail
         ELSE LET c == SkipWs(txt, k.pos) IN
              IF At(txt, c) # ":" THEN ParseFail
              ELSE LET v == ParseValue(txt, c + 1) IN
                   IF ~v.ok THEN ParseFail
                   ELSE LET e == SkipWs(txt, v.pos)
                            \* a repeated property name keeps the last value
                            next == (k.val.s :> v.val) @@ acc
                        IN  IF At(txt, e) = "," THEN ParseMembers(txt, e + 1, next)
                            ELSE IF At(txt, e) = "}" THEN ParseOk(JObj(next), e + 1)
                            ELSE ParseFail

JSONParse(txt) ==
    LET r == ParseValue(txt, 1) IN
    IF r.ok /\ SkipWs(txt, r.pos) = Len(txt) + 1
    THEN [threw |-> FALSE, value |-> r.val]
    ELSE [threw |-> TRUE, value |-> JUndefined]

(***************************************************************************)
(* utils/storage: the watchlist store.                                      *)
(***************************************************************************)
KEY == "fx_watchlist_v1"
\* a key of localStorage this program never names
OtherKey == "other_key"
Keys == {KEY, OtherKey}

\* one item of localStorage: absent, or a text
Absent == [present |-> FALSE, text |-> <<>>]
Item(txt) == [present |-> TRUE, text |-> txt]

Pair(b, t) == [base |-> b, target |-> t]
DefaultList == <<Pair(USD, MXN)>>

\* x.base, x.target: a property of an object, undefined on anything else
Prop(x, key) == IF x.t = "obj" /\ key \in DOMAIN x.m THEN x.m[key] ELSE JUndefined

\* JavaScript truthiness of a parsed value
Truthy(x) ==
    CASE x.t \in {"null", "undefined"} -> FALSE
      [] x.t = "bool" -> x.n = 1
      [] x.t = "num" -> x.n # 0
      [] x.t = "str" -> x.s # <<>>
      [] OTHER -> TRUE

isPair(x) == Truthy(x) /\ Prop(x, baseKey).t = "str" /\ Prop(x, targetKey).t = "str"

\* parsed.filter(isPair).map(p => ({base: p.base.toUpperCase(), target: ...}))
FilterMapPairs(arr) ==
    LET kept == SelectSeq(arr, isPair)
    IN  [i \in 1..Len(kept) |->
            Pair(toUpperCase(Prop(kept[i], baseKey).s), toUpperCase(Prop(kept[i], targetKey).s))]

\* a Map whose set moves an existing key to the end (last-seen position)
MapSetLastSeen(entries, k, v) ==
    Append(SelectSeq(entries, LAMBDA e : e.k # k), [k |-> k, v |-> v])

\* Map.prototype.set on a Map kept as its entries in insertion order: an
\* existing key keeps its position and takes the new value
MapSet(entries, k, v) ==
    IF \E i \in 1..Len(entries) : entries[i].k = k
    THEN [i \in 1..Len(entries) |-> IF entries[i].k = k THEN [k |-> k, v |-> v] ELSE entries[i]]
    ELSE Append(entries, [k |-> k, v |-> v])

\* the loop without its base === target test
RECURSIVE FillUniqKeepSame(_, _)
FillUniqKeepSame(pairs, uniq) ==
    IF pairs = <<>> THEN uniq
    ELSE LET p == Head(pairs) IN
         IF p.base = <<>> \/ p.target = <<>>
         THEN FillUniqKeepSame(Tail(pairs), uniq)
         ELSE FillUniqKeepSame(Tail(pairs), MapSet(uniq, KeyOf(p.base, p.target), p))

\* the for loop over pairs that fills uniq
RECURSIVE FillUniq(_, _)
FillUniq(pairs, uniq) ==
    IF pairs = <<>> THEN uniq
    ELSE LET p == Head(pairs) IN
         IF p.base = <<>> \/ p.target = <<>> \/ p.base = p.target
         THEN FillUniq(Tail(pairs), uniq)
         ELSE FillUniq(Tail(pairs), MapSet(uniq, KeyOf(p.base, p.target), p))

\* Array.from(uniq.values())
MapValues(entries) == [i \in 1..Len(entries) |-> entries[i].v]

\* localStorage.getItem(key); it throws when the storage cannot be used
getItem(ls, key, usable) ==
    IF usable THEN [threw |-> FALSE, value |-> ls[key]] ELSE [threw |-> TRUE, value |-> Absent]

\* the try block without the fallback for a list that came out empty
LoadTryKeepEmpty(ls, usable) ==
    LET got == getItem(ls, KEY, usable) IN
    IF got.threw THEN [threw |-> TRUE, value |-> <<>>]
    ELSE LET raw == got.value IN
         IF ~raw.present \/ raw.text = <<>> THEN [threw |-> FALSE, value |-> DefaultList]
         ELSE LET parsed == JSONParse(raw.text) IN
              IF parsed.threw THEN [threw |-> TRUE, value |-> <<>>]
              ELSE IF parsed.value.t # "arr" THEN [threw |-> FALSE, value |-> DefaultList]
              ELSE [threw |-> FALSE,
                    value |-> MapValues(FillUniq(FilterMapPairs(parsed.value.a), <<>>))]

\* the try block of loadWatchlist: threw = TRUE when it leaves by an exception
LoadTry(ls, usable) ==
    LET got == getItem(ls, KEY, usable) IN
    IF got.threw THEN [threw |-> TRUE, value |-> <<>>]
    ELSE LET raw == got.value IN
         IF ~raw.present \/ raw.text = <<>> THEN [threw |-> FALSE, value |-> DefaultList]
         ELSE LET parsed == JSONParse(raw.text) IN
              IF parsed.threw THEN [threw |-> TRUE, value |-> <<>>]
              ELSE IF parsed.value.t # "arr" THEN [threw |-> FALSE, value |-> DefaultList]
              ELSE LET list == MapValues(FillUniq(FilterMapPairs(parsed.value.a), <<>>))
                   IN  [threw |-> FALSE,
                        value |-> IF Len(list) # 0 THEN list ELSE DefaultList]

\* loadWatchlist without its try/catch
loadWatchlistNoCatch(ls, usable) == LoadTry(ls, usable)

\* loadWatchlist(): the try block, and the catch that returns the default
loadWatchlist(ls, usable) ==
    LET r == LoadTry(ls, usable) IN
    IF r.threw THEN [threw |-> FALSE, value |-> DefaultList] ELSE r

\* localStorage.setItem(key, text): replaces the item, or throws (quota
\* exceeded, storage disabled) and leaves the storage as it was
setItem(ls, key, txt, writable) ==
    IF writable THEN [threw |-> FALSE, ls |-> [ls EXCEPT ![key] = Item(txt)]]
    ELSE [threw |-> TRUE, ls |-> ls]

\* saveWatchlist without its try/catch
saveWatchlistNoCatch(ls, pairs, writable) ==
    LET r == setItem(ls, KEY, JSONStringify(pairs), writable)
    IN  [threw |-> r.threw, ls |-> r.ls, wrote |-> ~r.threw]

\* a save that writes only when nothing is stored yet
saveWatchlistOnce(ls, pairs, writable) ==
    LET r == setItem(ls, KEY, JSONStringify(pairs), writable)
    IN  [threw |-> FALSE, ls |-> IF ls[KEY].present THEN ls ELSE r.ls, wrote |-> ~r.threw]

\* saveWatchlist(pairs): setItem(KEY, JSON.stringify(pairs)) in a try with an
\* empty catch.  wrote tells whether the write went through.
saveWatchlist(ls, pairs, writable) ==
    LET r == setItem(ls, KEY, JSONStringify(pairs), writable)
    IN  [threw |-> FALSE, ls |-> r.ls, wrote |-> ~r.threw]

(***************************************************************************)
(* pages/Watchlist: the component.                                          *)
(*                                                                          *)
(*   localStorage  the browser's storage, one item per key                  *)
(*   pairs         useState<WatchPair[]>: the in-memory watchlist           *)
(*   base, target  useState: the codes selected in the two select boxes     *)
(*   msg           useState<string | null>: the message shown to the user   *)
(*   pc            "unmounted": no component yet; "effect": a commit with   *)
(*                 a new pairs array is done and the persisting effect is   *)
(*                 pending; "idle": waiting for the user; "crashed": an     *)
(*                 exception escaped                                        *)
(*   io            what the last storage call did: "ok", "threw", "none"    *)
(*   failures      how many storage writes have failed so far               *)
(*   last          the step taken last                                      *)
(*                                                                          *)
(* A click is a discrete event: React commits the state update of one       *)
(* handler and runs the effects of that commit before it dispatches the     *)
(* next event.  A handler therefore runs against the committed list (the    *)
(* `pairs` its closure captured is the `prev` its updater receives), and    *)
(* handlers are taken only when pc = "idle".                                *)
(***************************************************************************)
VARIABLES localStorage, pairs, base, target, msg, pc, io, failures, last

(***************************************************************************)
(* pages/History: the state of the history page (its base and target are    *)
(* the variables of the same name above; the two pages are never mounted    *)
(* together).                                                               *)
(*                                                                          *)
(*   period      useState<Period>: 7, 30 or 90                              *)
(*   rates       seriesQ.data?.rates ?? {} as Object.entries lists it       *)
(*   chartData   the value of the chartData memo                            *)
(*   stats       the value of the stats memo                                *)
(*   clock       the instant `new Date()` returns now                       *)
(*   endDate     the local `end` of the window memo once it is read         *)
(*   startISO, endISO   the value of the window memo                        *)
(***************************************************************************)
VARIABLES period, rates, chartData, stats, clock, endDate, startISO, endISO

historyVars == <<period, rates, chartData, stats, clock, endDate, startISO, endISO>>

vars == <<localStorage, pairs, base, target, msg, pc, io, failures, last, historyVars>>

\* stats === null
StatsNull == [isNull |-> TRUE, min |-> 0, max |-> 0, avg |-> 0, count |-> 0]

\* the history page is not mounted
HistoryUnmounted ==
    /\ period = 0
    /\ rates = <<>>
    /\ chartData = <<>>
    /\ stats = StatsNull
    /\ clock = 0
    /\ endDate = 0
    /\ startISO = <<>>
    /\ endISO = <<>>

\* most storage writes that fail in one behaviour
MaxFailures == 1

NoMsg == "null"
MsgEmpty == "Please select both currencies."
MsgSame == "Choose two different currencies."
MsgDuplicate == "That pair is already in your watchlist."

\* the codes the two select boxes offer (the currency list is fetched)
SelectCodes == {Empty, usd, USD, MXN}

\* the same test with the key built the other way round
SomeKeySwapped(list, key) == \E i \in 1..Len(list) : KeyOf(list[i].target, list[i].base) = key

\* pairs.some((p) => `${p.base}-${p.target}` === key)
SomeKey(list, key) == \E i \in 1..Len(list) : KeyOf(list[i].base, list[i].target) = key

\* an updater that appends
AddUpdaterAppend(b, t, prev) == Append(prev, Pair(b, t))

\* (prev) => [{ base: b, target: t }, ...prev]
AddUpdater(b, t, prev) == <<Pair(b, t)>> \o prev

\* a filter that drops an entry when either field matches
RemoveUpdaterEither(p, prev) ==
    SelectSeq(prev, LAMBDA x : ~(x.base = p.base \/ x.target = p.target))

\* (prev) => prev.filter((x) => !(x.base === p.base && x.target === p.target))
RemoveUpdater(p, prev) ==
    SelectSeq(prev, LAMBDA x : ~(x.base = p.base /\ x.target = p.target))

\* onAdd without its b === t test
AddOutcomeNoSame(bs, tg, captured) ==
    LET b == toUpperCase(bs)
        t == toUpperCase(tg)
    IN  IF b = <<>> \/ t = <<>> THEN [ok |-> FALSE, msg |-> MsgEmpty, b |-> b, t |-> t]
        ELSE IF SomeKey(captured, KeyOf(b, t))
             THEN [ok |-> FALSE, msg |-> MsgDuplicate, b |-> b, t |-> t]
        ELSE [ok |-> TRUE, msg |-> NoMsg, b |-> b, t |-> t]

\* what onAdd decides from the selected codes and the list it captured
AddOutcome(bs, tg, captured) ==
    LET b == toUpperCase(bs)
        t == toUpperCase(tg)
    IN  IF b = <<>> \/ t = <<>> THEN [ok |-> FALSE, msg |-> MsgEmpty, b |-> b, t |-> t]
        ELSE IF b = t THEN [ok |-> FALSE, msg |-> MsgSame, b |-> b, t |-> t]
        ELSE IF SomeKey(captured, KeyOf(b, t))
             THEN [ok |-> FALSE, msg |-> MsgDuplicate, b |-> b, t |-> t]
        ELSE [ok |-> TRUE, msg |-> NoMsg, b |-> b, t |-> t]

\* texts found under KEY when the page is first opened
BlobNull == <<"n", "u", "l", "l">>
BlobGarbage == <<"[", "{">>
BlobNoTarget == <<"{">> \o StrLit(baseKey) \o <<":">> \o StrLit(EUR) \o <<"}">>
BlobNumBase ==
    <<"{">> \o StrLit(baseKey) \o <<":", "1", "2", "3", ",">>
            \o StrLit(targetKey) \o <<":">> \o StrLit(GBP) \o <<"}">>
USDMXN == USD \o Hyphen \o MXN
MXNUSD == MXN \o Hyphen \o USD

InitItems ==
    { Absent, Item(<<>>), Item(BlobGarbage), Item(BlobNoTarget),
      Item(ArrayText(<<>>)),
      Item(ArrayText(<<PairText(Pair(usd, mxn)), PairText(Pair(USD, MXN))>>)),
      Item(ArrayText(<<PairText(Pair(EUR, USD)), BlobNumBase>>)),
      Item(ArrayText(<<PairText(Pair(USDMXN, USD)), PairText(Pair(USD, MXNUSD))>>)),
      Item(ArrayText(<<PairText(Pair(USD, USD))>>)) }

OtherItem == Item(<<"x">>)

Init ==
    /\ HistoryUnmounted
    /\ \E it \in InitItems : localStorage = [k \in Keys |-> IF k = KEY THEN it ELSE OtherItem]
    /\ pairs = <<>>
    /\ base = USD
    /\ target = MXN
    /\ msg = NoMsg
    /\ pc = "unmounted"
    /\ io = "none"
    /\ failures = 0
    /\ last = "init"

\* a first render after which no effect runs
MountNoEffect ==
    /\ UNCHANGED historyVars
    /\ pc = "unmounted"
    /\ \E usable \in BOOLEAN :
          LET r == loadWatchlist(localStorage, usable) IN
          /\ pairs' = r.value
          /\ pc' = IF r.threw THEN "crashed" ELSE "idle"
          /\ io' = IF usable THEN "ok" ELSE "threw"
    /\ base' = USD
    /\ target' = MXN
    /\ msg' = NoMsg
    /\ last' = "mount"
    /\ UNCHANGED <<localStorage, failures>>

\* first render: the three useState initialisers; the effect is then pending
Mount ==
    /\ UNCHANGED historyVars
    /\ pc = "unmounted"
    /\ \E usable \in BOOLEAN :
          LET r == loadWatchlist(localStorage, usable) IN
          /\ pairs' = r.value
          /\ pc' = IF r.threw THEN "crashed" ELSE "effect"
          /\ io' = IF usable THEN "ok" ELSE "threw"
    /\ base' = USD
    /\ target' = MXN
    /\ msg' = NoMsg
    /\ last' = "mount"
    /\ UNCHANGED <<localStorage, failures>>

\* useEffect(() => { saveWatchlist(pairs) }, [pairs])
Effect ==
    /\ UNCHANGED historyVars
    /\ pc = "effect"
    /\ \E writable \in BOOLEAN :
          LET r == saveWatchlist(localStorage, pairs, writable) IN
          /\ writable \/ failures < MaxFailures
          /\ localStorage' = r.ls
          /\ pc' = IF r.threw THEN "crashed" ELSE "idle"
          /\ io' = IF r.wrote THEN "ok" ELSE "threw"
          /\ failures' = IF r.wrote THEN failures ELSE failures + 1
    /\ last' = "effect"
    /\ UNCHANGED <<pairs, base, target, msg>>

\* onChange of the two select boxes
SetBase ==
    /\ UNCHANGED historyVars
    /\ pc = "idle"
    /\ \E c \in SelectCodes : base' = c
    /\ last' = "setBase"
    /\ UNCHANGED <<localStorage, pairs, target, msg, pc, io, failures>>

SetTarget ==
    /\ UNCHANGED historyVars
    /\ pc = "idle"
    /\ \E c \in SelectCodes : target' = c
    /\ last' = "setTarget"
    /\ UNCHANGED <<localStorage, pairs, base, msg, pc, io, failures>>

\* onAdd and the commit of its state updates: a rejection sets msg and leaves
\* the pairs array as it is (the effect does not run); a valid add commits
\* the updater's array and leaves the effect pending
OnAdd ==
    /\ UNCHANGED historyVars
    /\ pc = "idle"
    /\ LET o == AddOutcome(base, target, pairs) IN
       /\ o.ok => Len(pairs) < MaxPairs
       /\ msg' = o.msg
       /\ pairs' = IF o.ok THEN AddUpdater(o.b, o.t, pairs) ELSE pairs
       /\ pc' = IF o.ok THEN "effect" ELSE "idle"
    /\ last' = "onAdd"
    /\ UNCHANGED <<localStorage, base, target, io, failures>>

\* onRemove(p) of one rendered item, and the commit of its update: filter
\* always returns a new array, so the effect is pending
OnRemove ==
    /\ UNCHANGED historyVars
    /\ pc = "idle"
    /\ \E i \in 1..Len(pairs) : pairs' = RemoveUpdater(pairs[i], pairs)
    /\ pc' = "effect"
    /\ last' = "onRemove"
    /\ UNCHANGED <<localStorage, base, target, msg, io, failures>>

\* the page is left or reloaded: the component's state is gone, the storage stays
Reload ==
    /\ UNCHANGED historyVars
    /\ pc \in {"idle", "crashed"}
    /\ pc' = "unmounted"
    /\ pairs' = <<>>
    /\ base' = USD
    /\ target' = MXN
    /\ msg' = NoMsg
    /\ io' = "none"
    /\ last' = "reload"
    /\ UNCHANGED <<localStorage, failures>>

Next == Mount \/ Effect \/ SetBase \/ SetTarget \/ OnAdd \/ OnRemove \/ Reload

Spec == Init /\ [][Next]_vars

(***************************************************************************)
(* The store's functions and the two updaters on their own: the inputs are  *)
(* drawn by InitStore (a stored text, or a list and a pair), and each       *)
(* action applies one function to them.  pc = "store" throughout; the      *)
(* remove step leaves in base and target the pair it handed to the updater. *)
(***************************************************************************)
QuoteCode == <<"U", Quote, Backslash>>

StorePairs ==
    { Pair(usd, mxn), Pair(USD, MXN), Pair(USD, USD), Pair(Empty, USD), Pair(EUR, USD),
      Pair(USDMXN, USD), Pair(USD, MXNUSD), Pair(QuoteCode, EUR) }

BlobSwapped ==
    <<"{">> \o StrLit(targetKey) \o <<":">> \o StrLit(mxn) \o <<",">>
            \o StrLit(baseKey) \o <<":">> \o StrLit(EUR) \o <<"}">>

\* array elements that are no pair objects
OddElems ==
    { BlobNull, <<"1", "2", "3">>, StrLit(USD), ArrayText(<<>>),
      BlobNoTarget, BlobNumBase, BlobSwapped }

StoreElems == OddElems \cup {PairText(p) : p \in StorePairs \ {Pair(QuoteCode, EUR)}}

\* sequences over S of length 0..n
SeqsUpTo(S, n) == UNION {[1..k -> S] : k \in 0..n}

\* stored texts that are no array, or no JSON at all
OddItems ==
    { Absent, Item(<<>>), Item(BlobGarbage), Item(BlobNull), Item(BlobNoTarget),
      Item(StrLit(USD)), Item(<<"1", "2", "3">>), Item(<<"[", "1", ",", "]">>),
      Item(<<"t", "r", "u">>), Item(<<"[", "]", "x">>), Item(<<" ">>),
      Item(<<"[", " ">> \o BlobSwapped \o <<" ", "]", " ">>) }

StoreItems == OddItems \cup {Item(ArrayText(a)) : a \in SeqsUpTo(StoreElems, MaxLen)}

InitStore ==
    /\ HistoryUnmounted
    /\ pc = "store"
    /\ msg = NoMsg
    /\ io = "none"
    /\ failures = 0
    /\ last = "init"
    /\ \/ /\ \E it \in StoreItems :
                localStorage = [k \in Keys |-> IF k = KEY THEN it ELSE OtherItem]
          /\ pairs = <<>>
          /\ base = Empty
          /\ target = Empty
       \/ /\ localStorage = [k \in Keys |-> IF k = KEY THEN Absent ELSE OtherItem]
          /\ pairs \in SeqsUpTo(StorePairs, MaxLen)
          /\ base = Empty
          /\ target = Empty

\* loadWatchlist() on the stored text: first of all, or after a save
StoreLoad ==
    /\ UNCHANGED historyVars
    /\ pc = "store"
    /\ last \in {"init", "save"}
    /\ \E usable \in BOOLEAN :
          LET r == loadWatchlist(localStorage, usable) IN
          /\ pairs' = r.value
          /\ pc' = IF r.threw THEN "crashed" ELSE "store"
          /\ io' = IF usable THEN "ok" ELSE "threw"
    /\ last' = "load"
    /\ UNCHANGED <<localStorage, base, target, msg, failures>>

\* saveWatchlist(pairs) on the drawn list
StoreSave ==
    /\ UNCHANGED historyVars
    /\ pc = "store"
    /\ last = "init"
    /\ ~localStorage[KEY].present
    /\ \E writable \in BOOLEAN :
          LET r == saveWatchlist(localStorage, pairs, writable) IN
          /\ localStorage' = r.ls
          /\ pc' = IF r.threw THEN "crashed" ELSE "store"
          /\ io' = IF r.wrote THEN "ok" ELSE "threw"
          /\ failures' = IF r.wrote THEN failures ELSE failures + 1
    /\ last' = "save"
    /\ UNCHANGED <<pairs, base, target, msg>>

\* the remove updater on the drawn list and a pair
StoreRemove ==
    /\ UNCHANGED historyVars
    /\ pc = "store"
    /\ last = "init"
    /\ ~localStorage[KEY].present
    /\ \E p \in StorePairs :
          /\ pairs' = RemoveUpdater(p, pairs)
          /\ base' = p.base
          /\ target' = p.target
    /\ last' = "remove"
    /\ UNCHANGED <<localStorage, msg, pc, io, failures>>

NextStore == StoreLoad \/ StoreSave \/ StoreRemove

SpecStore == InitStore /\ [][NextStore]_vars

(***************************************************************************)
(* Vocabulary of the properties.                                            *)
(***************************************************************************)
Stored == localStorage[KEY]
Parsed == JSONParse(Stored.text)

\* no lower-case letter
IsUpper(str) == \A i \in 1..Len(str) : str[i] \notin DOMAIN UpperOf

\* a pair as the data model wants it
ValidPair(p) ==
    /\ p.base # <<>> /\ p.target # <<>>
    /\ IsUpper(p.base) /\ IsUpper(p.target)
    /\ p.base = toUpperCase(p.base) /\ p.target = toUpperCase(p.target)
    /\ p.base # p.target

UniqueKeys(list) ==
    \A i, j \in 1..Len(list) :
        i # j => list[i].base \o <<"-">> \o list[i].target # list[j].base \o <<"-">> \o list[j].target

IsNormalized(list) == UniqueKeys(list) /\ \A i \in 1..Len(list) : ValidPair(list[i])

SetOf(list) == {list[i] : i \in 1..Len(list)}

\* an array element that is an object with a string base and a string target
ShapedElem(e) ==
    /\ e.t = "obj"
    /\ baseKey \in DOMAIN e.m /\ e.m[baseKey].t = "str"
    /\ targetKey \in DOMAIN e.m /\ e.m[targetKey].t = "str"

UpperPair(e) == Pair(toUpperCase(e.m[baseKey].s), toUpperCase(e.m[targetKey].s))

\* ... that is still a pair once in upper case
KeptElem(e) ==
    ShapedElem(e) /\ UpperPair(e).base # <<>> /\ UpperPair(e).target # <<>>
                  /\ UpperPair(e).base # UpperPair(e).target

\* the upper-case pairs of the kept elements, in the array's order
Survivors(arr) ==
    LET kept == SelectSeq(arr, KeptElem) IN [i \in 1..Len(kept) |-> UpperPair(kept[i])]

PKey(p) == p.base \o <<"-">> \o p.target

\* one pair per key, at the position of the key's first occurrence, with the
\* value of its last occurrence
DedupFirstSeen(S) ==
    LET firsts == SelectSeq([i \in 1..Len(S) |-> i],
                            LAMBDA i : \A j \in 1..(i - 1) : PKey(S[j]) # PKey(S[i]))
        lastOf(i) == CHOOSE j \in 1..Len(S) :
                        /\ PKey(S[j]) = PKey(S[i])
                        /\ \A l \in (j + 1)..Len(S) : PKey(S[l]) # PKey(S[i])
    IN  [n \in 1..Len(firsts) |-> S[lastOf(firsts[n])]]

\* the stored text parses into an array
StoredArray == Stored.present /\ Stored.text # <<>> /\ ~Parsed.threw /\ Parsed.value.t = "arr"

(***************************************************************************)
(* C1.  loadWatchlist never raises, and it returns exactly the default      *)
(* list [(USD, MXN)] when the key is absent or holds an empty text, when    *)
(* the read throws, when the text is no JSON, when the parsed value is no   *)
(* array, and when the array has no element that is still a pair after      *)
(* filtering and upper-casing.                                              *)
(***************************************************************************)
C1_DefaultCase ==
    \/ io = "threw"
    \/ ~Stored.present
    \/ Stored.text = <<>>
    \/ Parsed.threw
    \/ Parsed.value.t # "arr"
    \/ \A i \in 1..Len(Parsed.value.a) : ~KeptElem(Parsed.value.a[i])

C1_LoadDefaults ==
    last = "load" => /\ pc # "crashed"
                     /\ C1_DefaultCase => pairs = <<Pair(USD, MXN)>>

C1_Witness ==
    /\ last = "load" /\ io = "ok"
    /\ Stored = Item(ArrayText(<<PairText(Pair(USD, USD))>>))
    /\ pairs = <<Pair(USD, MXN)>>

(***************************************************************************)
(* C2.  The in-memory watchlist never holds two entries with the same key   *)
(* base + "-" + target, whatever loads, adds and removes came before.       *)
(***************************************************************************)
C2_UniqueKeys == pc \in {"effect", "idle"} => UniqueKeys(pairs)

\* an add of (usd, MXN) was refused as a duplicate of a pair of a longer list
C2_Witness ==
    /\ last = "onAdd" /\ msg = MsgDuplicate /\ base = usd /\ target = MXN
    /\ Len(pairs) = 2 /\ pairs[2] = Pair(USD, MXN)

(***************************************************************************)
(* C3.  As the claim states it: for every stored array, loadWatchlist       *)
(* returns the kept pairs, in upper case, deduplicated by key in first-seen *)
(* order with the last value.  (Refuted: an array that keeps no pair.)      *)
(***************************************************************************)
C3_Original ==
    (last = "load" /\ io = "ok" /\ StoredArray)
        => pairs = DedupFirstSeen(Survivors(Parsed.value.a))

(***************************************************************************)
(* C3, amended.  For every stored array, loadWatchlist returns the kept     *)
(* pairs, in upper case, deduplicated by key in first-seen order with the   *)
(* last value, or the default list [(USD, MXN)] when no pair is kept.       *)
(***************************************************************************)
C3_LoadNormalizes ==
    (last = "load" /\ io = "ok" /\ StoredArray)
        => LET kept == DedupFirstSeen(Survivors(Parsed.value.a))
           IN  pairs = IF kept = <<>> THEN <<Pair(USD, MXN)>> ELSE kept

\* a key seen twice with different values keeps its first position
C3_Witness ==
    /\ last = "load" /\ io = "ok"
    /\ Stored = Item(ArrayText(<<PairText(Pair(USDMXN, USD)), PairText(Pair(usd, mxn)),
                                 PairText(Pair(USD, MXNUSD))>>))
    /\ pairs = <<Pair(USD, MXNUSD), Pair(USD, MXN)>>

(***************************************************************************)
(* C4.  onAdd takes the selected codes in upper case and refuses them with  *)
(* the EmptyField message if one is empty, else with the SamePair message   *)
(* if they are equal, else with the DuplicatePair message if their key is   *)
(* in the watchlist; a refusal leaves the watchlist and the storage as they *)
(* were, leaves no save pending, sets the message and throws nothing.       *)
(***************************************************************************)
C4_Refused == pairs' = pairs /\ localStorage' = localStorage /\ pc' = "idle"

C4_AddStep ==
    last' = "onAdd" =>
        LET b == toUpperCase(base)
            t == toUpperCase(target)
            dup == \E i \in 1..Len(pairs) : PKey(pairs[i]) = PKey(Pair(b, t))
        IN  /\ pc' # "crashed"
            /\ (b = <<>> \/ t = <<>>) => (msg' = MsgEmpty /\ C4_Refused)
            /\ (b # <<>> /\ t # <<>> /\ b = t) => (msg' = MsgSame /\ C4_Refused)
            /\ (b # <<>> /\ t # <<>> /\ b # t /\ dup) => (msg' = MsgDuplicate /\ C4_Refused)

C4_AddRejects == [][C4_AddStep]_vars

\* usd against USD: equal only once in upper case
C4_Witness ==
    /\ last = "onAdd" /\ msg = MsgSame /\ base = usd /\ target = USD /\ pc = "idle"

(***************************************************************************)
(* C5.  A valid add (both codes non-empty, different, key not in the list)  *)
(* commits a list whose first entry is the new upper-case pair and whose    *)
(* other entries are the previous list in the same order: one entry more.   *)
(***************************************************************************)
C5_AddStep ==
    LET b == toUpperCase(base)
        t == toUpperCase(target)
        dup == \E i \in 1..Len(pairs) : PKey(pairs[i]) = PKey(Pair(b, t))
    IN  (last' = "onAdd" /\ b # <<>> /\ t # <<>> /\ b # t /\ ~dup) =>
            /\ Len(pairs') = Len(pairs) + 1
            /\ Head(pairs') = Pair(b, t)
            /\ Tail(pairs') = pairs

C5_AddPrepends == [][C5_AddStep]_vars

C5_Witness ==
    /\ last = "onAdd" /\ msg = NoMsg /\ pc = "effect" /\ base = usd /\ target = MXN
    /\ pairs = <<Pair(USD, MXN), Pair(EUR, USD)>>

(***************************************************************************)
(* C6.  On a watchlist (no key twice), removing a pair that is not in it    *)
(* gives an equal list; removing a pair that is in it gives a list one      *)
(* shorter: that entry is gone, an entry that differs in base or in target  *)
(* stays, and the entries that stay keep their order.                       *)
(***************************************************************************)
C6_RemoveStep ==
    (last' = "remove" /\ UniqueKeys(pairs)) =>
        LET p == Pair(base', target')
            at == {i \in 1..Len(pairs) : pairs[i] = p}
        IN  /\ at = {} => pairs' = pairs
            /\ at # {} =>
                  /\ Len(pairs') = Len(pairs) - 1
                  /\ \E i \in at :
                        pairs' = SubSeq(pairs, 1, i - 1) \o SubSeq(pairs, i + 1, Len(pairs))
                  /\ \A i \in 1..Len(pairs) :
                        (pairs[i].base # p.base \/ pairs[i].target # p.target)
                            => \E j \in 1..Len(pairs') : pairs'[j] = pairs[i]

C6_RemoveExact == [][C6_RemoveStep]_vars

\* (USD, MXN) was removed; (usd, mxn) and (USD, USD) stayed
C6_Witness ==
    /\ last = "remove" /\ base = USD /\ target = MXN
    /\ pairs = <<Pair(usd, mxn), Pair(USD, USD)>>

(***************************************************************************)
(* C7.  As the claim states it: for every normalized, deduplicated list x,  *)
(* saveWatchlist(x) and then loadWatchlist() give the set of pairs of x.    *)
(* (Refuted: the empty list.)                                               *)
(***************************************************************************)
C7_OriginalStep ==
    (last = "save" /\ io = "ok" /\ last' = "load" /\ io' = "ok" /\ IsNormalized(pairs))
        => SetOf(pairs') = SetOf(pairs)

C7_Original == [][C7_OriginalStep]_vars

(***************************************************************************)
(* C7, amended.  For every non-empty normalized, deduplicated list x,       *)
(* saveWatchlist(x) and then loadWatchlist() give the set of pairs of x.    *)
(***************************************************************************)
C7_RoundTripStep ==
    (last = "save" /\ io = "ok" /\ last' = "load" /\ io' = "ok" /\ IsNormalized(pairs)
       /\ pairs # <<>>)
        => SetOf(pairs') = SetOf(pairs)

C7_RoundTrip == [][C7_RoundTripStep]_vars

\* a code with a quote and a backslash went through the storage and came back
C7_Witness ==
    /\ last = "load" /\ io = "ok"
    /\ pairs = <<Pair(QuoteCode, EUR), Pair(EUR, USD)>>
    /\ Stored = Item(JSONStringify(pairs))

(***************************************************************************)
(* C8.  Every add or remove that changes the list is handled with no save   *)
(* pending and leaves one pending; the save writes, under KEY alone, the    *)
(* whole serialization of the list as it then is; so whenever the last      *)
(* write went through and no save is pending, the stored text is the        *)
(* serialization of the in-memory watchlist.                                *)
(***************************************************************************)
C8_Synced == (pc = "idle" /\ io = "ok") => Stored = Item(JSONStringify(pairs))

C8_Step ==
    /\ (last' \in {"onAdd", "onRemove"} /\ pairs' # pairs) => (pc = "idle" /\ pc' = "effect")
    /\ pairs' # pairs => (pc \in {"unmounted", "idle"} /\ pc' \in {"effect", "unmounted"})
    /\ (last' = "effect" /\ io' = "ok") =>
          /\ pairs' = pairs
          /\ localStorage' = [localStorage EXCEPT ![KEY] = Item(JSONStringify(pairs))]

C8_SaveFollows == []C8_Synced /\ [][C8_Step]_vars

\* two adds after the first load, each saved
C8_Witness ==
    /\ pc = "idle" /\ io = "ok" /\ last = "effect"
    /\ pairs = <<Pair(MXN, USD), Pair(USD, MXN), Pair(EUR, USD)>>
    /\ Stored = Item(JSONStringify(pairs))

(***************************************************************************)
(* C9.  When the storage write fails, saveWatchlist returns normally: no    *)
(* crash, the in-memory watchlist and the message keep their values, the    *)
(* storage keeps what it held, and the component goes on taking events; a   *)
(* later save that goes through stores the list as it then is.              *)
(***************************************************************************)
C9_FailStep ==
    (last' = "effect" /\ io' = "threw") =>
        /\ pc' = "idle"
        /\ pairs' = pairs
        /\ msg' = msg
        /\ localStorage' = localStorage

C9_Recovered ==
    (failures > 0 /\ pc = "idle" /\ io = "ok") => Stored = Item(JSONStringify(pairs))

C9_WriteFailureSwallowed == [][C9_FailStep]_vars /\ []C9_Recovered /\ [](pc # "crashed")

\* the save of an add failed and left the older text in the storage
C9_Witness ==
    /\ last = "effect" /\ io = "threw" /\ pc = "idle" /\ failures = 1
    /\ pairs = <<Pair(MXN, USD), Pair(USD, MXN)>>
    /\ Stored = Item(JSONStringify(<<Pair(USD, MXN)>>))

(***************************************************************************)
(* C10.  Every pair of the in-memory watchlist has a non-empty base and a   *)
(* non-empty target, both in upper case, and base # target.                 *)
(***************************************************************************)
C10_ValidPairs ==
    pc \in {"effect", "idle"} => \A i \in 1..Len(pairs) : ValidPair(pairs[i])

\* a pair stored in lower case and a pair added in lower case, both upper case now
C10_Witness ==
    /\ pc = "idle" /\ last = "effect" /\ base = usd /\ target = MXN
    /\ pairs = <<Pair(USD, MXN), Pair(EUR, USD)>> /\ io = "ok"


(***************************************************************************)
(* pages/History: dates.  A Date is its time value, counted in ticks of     *)
(* which TicksPerDay make one UTC day; the calendar fields are those of     *)
(* the proleptic Gregorian calendar, as ECMAScript computes them.           *)
(***************************************************************************)
\* clock readings that make one UTC day
TicksPerDay == 2

\* Day(t) and TimeWithinDay(t) of ECMAScript
Day(t) == t \div TicksPerDay
TimeWithinDay(t) == t % TicksPerDay

\* the day number of the civil date (y, m, d), m in 1..12, d in 1..31
DaysFromCivil(y, m, d) ==
    LET yy == IF m <= 2 THEN y - 1 ELSE y
        era == yy \div 400
        yoe == yy - era * 400
        mp == IF m > 2 THEN m - 3 ELSE m + 9
        doy == (153 * mp + 2) \div 5 + d - 1
        doe == yoe * 365 + yoe \div 4 - yoe \div 100 + doy
    IN  era * 146097 + doe - 719468

\* the civil date of a day number
CivilFromDays(z) ==
    LET zz == z + 719468
        era == zz \div 146097
        doe == zz - era * 146097
        yoe == (doe - doe \div 1460 + doe \div 36524 - doe \div 146096) \div 365
        doy == doe - (365 * yoe + yoe \div 4 - yoe \div 100)
        mp == (5 * doy + 2) \div 153
        d == doy - (153 * mp + 2) \div 5 + 1
        m == IF mp < 10 THEN mp + 3 ELSE mp - 9
    IN  [y |-> IF m <= 2 THEN yoe + era * 400 + 1 ELSE yoe + era * 400, m |-> m, d |-> d]

getUTCFullYear(t) == CivilFromDays(Day(t)).y
getUTCMonth(t) == CivilFromDays(Day(t)).m - 1
getUTCDate(t) == CivilFromDays(Day(t)).d

\* MakeDay(year, month, date): the first of the month, then date - 1 days on
MakeDay(y, m0, dt) == DaysFromCivil(y, m0 + 1, 1) + dt - 1

\* Date.UTC(y, m0, d) and d.setUTCDate(dt): the time within the day is kept
DateUTC(y, m0, dt) == MakeDay(y, m0, dt) * TicksPerDay
setUTCDate(t, dt) == MakeDay(getUTCFullYear(t), getUTCMonth(t), dt) * TicksPerDay + TimeWithinDay(t)

\* String(n) of a natural number
RECURSIVE StringOfNat(_)
StringOfNat(n) ==
    IF n < 10 THEN <<Digits[n + 1]>> ELSE StringOfNat(n \div 10) \o <<Digits[(n % 10) + 1]>>

\* s.padStart(2, "0")
padStart2(str) == IF Len(str) < 2 THEN <<"0">> \o str ELSE str

\* isoDateUTC(d): YYYY-MM-DD of the UTC fields
isoDateUTC(t) ==
    LET y == StringOfNat(getUTCFullYear(t))
        m == padStart2(StringOfNat(getUTCMonth(t) + 1))
        day == padStart2(StringOfNat(getUTCDate(t)))
    IN  y \o Hyphen \o m \o Hyphen \o day

\* daysAgoUTC(days), `new Date()` returning the instant t
daysAgoUTC(t, days) == setUTCDate(t, getUTCDate(t) - days)


(***************************************************************************)
(* pages/History: numbers.  A JavaScript number is a binary floating-point  *)
(* value; the model keeps the format and shortens the significand to        *)
(* Precision bits.  A finite non-negative number is a natural number of     *)
(* units (the unit is the spacing of the subnormal numbers); it is a value  *)
(* of the format when it has at most Precision significant bits; every      *)
(* operation rounds its exact result to the nearest value, ties to the      *)
(* even significand, and a result above MaxFinite is Infinity.  Rates are   *)
(* not negative, so -Infinity is only the start value of the max loop and   *)
(* NaN does not arise.                                                      *)
(***************************************************************************)
\* bits of the significand
Precision == 4

\* the largest finite number
MaxFinite == (2^Precision - 1) * 2^Precision

\* Number.POSITIVE_INFINITY and Number.NEGATIVE_INFINITY
Infinity == MaxFinite + 1
NegInfinity == 0 - Infinity

\* the spacing of the format's values around x
RECURSIVE Quantum(_)
Quantum(x) == IF x < 2^Precision THEN 1 ELSE 2 * Quantum(x \div 2)

\* num / den rounded to a multiple of q, ties to the even multiple
RoundToMultiple(num, den, q) ==
    LET k == num \div (den * q)
        r == num - k * den * q
    IN  IF 2 * r < den * q THEN k * q
        ELSE IF 2 * r > den * q THEN (k + 1) * q
        ELSE IF k % 2 = 0 THEN k * q ELSE (k + 1) * q

\* the exact quotient num / den (num >= 0, den > 0) as a number
Fl(num, den) ==
    LET v == RoundToMultiple(num, den, Quantum(num \div den))
    IN  IF v > MaxFinite THEN Infinity ELSE v

\* a number that is a value of the format
IsValue(n) == n = Infinity \/ (n >= 0 /\ n <= MaxFinite /\ Fl(n, 1) = n)

\* a + b
NumAdd(a, b) == IF a = Infinity \/ b = Infinity THEN Infinity ELSE Fl(a + b, 1)

\* a / n for a count n > 0
NumDiv(a, n) == IF a = Infinity THEN Infinity ELSE Fl(a, n)

\* Math.min and Math.max
MathMin(a, b) == IF a <= b THEN a ELSE b
MathMax(a, b) == IF a >= b THEN a ELSE b

\* Number.isFinite on a JSON value
IsFiniteNumber(x) == x.t = "num" /\ x.n # Infinity /\ x.n # NegInfinity


(***************************************************************************)
(* pages/History: the chart series and its statistics.                      *)
(***************************************************************************)
\* the order of the characters of a date under localeCompare
Collation == <<"-", "0", "1", "2", "3", "4", "5", "6", "7", "8", "9">>
CharRank(c) == CHOOSE k \in 1..Len(Collation) : Collation[k] = c

\* a.localeCompare(b) on texts of these characters: -1, 0 or 1
RECURSIVE localeCompare(_, _)
localeCompare(a, b) ==
    IF a = <<>> /\ b = <<>> THEN 0
    ELSE IF a = <<>> THEN 0 - 1
    ELSE IF b = <<>> THEN 1
    ELSE IF CharRank(Head(a)) < CharRank(Head(b)) THEN 0 - 1
    ELSE IF CharRank(Head(a)) > CharRank(Head(b)) THEN 1
    ELSE localeCompare(Tail(a), Tail(b))

\* iso.split("-")
RECURSIVE Split(_, _)
Split(txt, cur) ==
    IF txt = <<>> THEN <<cur>>
    ELSE IF Head(txt) = "-" THEN <<cur>> \o Split(Tail(txt), <<>>)
    ELSE Split(Tail(txt), Append(cur, Head(txt)))

\* Number(s) of a text of digits; NaN is -1
RECURSIVE NumberOfDigits(_, _)
NumberOfDigits(txt, acc) ==
    IF txt = <<>> THEN acc
    ELSE IF ~IsDigit(Head(txt)) THEN 0 - 1
    ELSE NumberOfDigits(Tail(txt), 10 * acc + DigitVal(Head(txt)))

MonthShort ==
    << <<"J", "a", "n">>, <<"F", "e", "b">>, <<"M", "a", "r">>, <<"A", "p", "r">>,
       <<"M", "a", "y">>, <<"J", "u", "n">>, <<"J", "u", "l">>, <<"A", "u", "g">>,
       <<"S", "e", "p">>, <<"O", "c", "t">>, <<"N", "o", "v">>, <<"D", "e", "c">> >>

\* shortDateLabel(iso): "Feb 26"; formatting an invalid date throws a RangeError
shortDateLabel(iso) ==
    LET parts == Split(iso, <<>>)
        y == IF Len(parts) >= 1 THEN NumberOfDigits(parts[1], 0) ELSE 0 - 1
        m == IF Len(parts) >= 2 THEN NumberOfDigits(parts[2], 0) ELSE 0 - 1
        d == IF Len(parts) >= 3 THEN NumberOfDigits(parts[3], 0) ELSE 0 - 1
    IN  IF y < 0 \/ m < 0 \/ d < 0
        THEN [threw |-> TRUE, label |-> <<>>]
        ELSE LET c == CivilFromDays(Day(DateUTC(y, m - 1, d)))
             IN  [threw |-> FALSE,
                  label |-> MonthShort[c.m] \o <<" ">> \o padStart2(StringOfNat(c.d))]

\* obj?.[key]
OptIndex(obj, key) == IF obj.t \in {"null", "undefined"} THEN JUndefined ELSE Prop(obj, key)

\* the callback of .map: ({ date, label: shortDateLabel(date), rate: obj?.[target] }),
\* or the exception of shortDateLabel
MapPoints(entries, tgt) ==
    [i \in 1..Len(entries) |->
        LET l == shortDateLabel(entries[i].date)
        IN  [threw |-> l.threw,
             point |-> [date |-> entries[i].date, label |-> l.label,
                        rate |-> OptIndex(entries[i].obj, tgt)]]]

\* (p) => typeof p.rate === "number"
IsNumberPoint(p) == p.rate.t = "num"

\* (a, b) => a.date.localeCompare(b.date)
CompareDates(a, b) == localeCompare(a.date, b.date)

\* Array.prototype.sort with CompareDates: stable
RECURSIVE InsertSorted(_, _)
InsertSorted(sorted, x) ==
    IF sorted = <<>> THEN <<x>>
    ELSE IF CompareDates(sorted[Len(sorted)], x) <= 0 THEN Append(sorted, x)
    ELSE Append(InsertSorted(SubSeq(sorted, 1, Len(sorted) - 1), x), sorted[Len(sorted)])

RECURSIVE SortPoints(_)
SortPoints(points) ==
    IF points = <<>> THEN <<>>
    ELSE InsertSorted(SortPoints(SubSeq(points, 1, Len(points) - 1)), points[Len(points)])

\* points.slice(-n), n > 0: the last n elements, all of them when there are fewer
SliceLast(points, n) ==
    LET from == IF Len(points) - n > 0 THEN Len(points) - n ELSE 0
    IN  SubSeq(points, from + 1, Len(points))

\* the chartData memo; it throws when a label does
chartDataOf(entries, tgt, per) ==
    LET mapped == MapPoints(entries, tgt)
        points == [i \in 1..Len(mapped) |-> mapped[i].point]
    IN  [threw |-> \E i \in 1..Len(mapped) : mapped[i].threw,
         value |-> SliceLast(SortPoints(SelectSeq(points, IsNumberPoint)), per)]

\* the loop of the stats memo over chartData[i..]
RECURSIVE StatsLoop(_, _, _, _, _)
StatsLoop(data, i, min, max, sum) ==
    IF i > Len(data) THEN [min |-> min, max |-> max, sum |-> sum]
    ELSE StatsLoop(data, i + 1, MathMin(min, data[i].rate.n), MathMax(max, data[i].rate.n),
                   NumAdd(sum, data[i].rate.n))

\* the memo with a loop that starts at the second point
statsOfSkipFirst(data) ==
    IF Len(data) = 0 THEN StatsNull
    ELSE LET r == StatsLoop(data, 2, Infinity, NegInfinity, 0)
         IN  [isNull |-> FALSE, min |-> r.min, max |-> r.max,
              avg |-> NumDiv(r.sum, Len(data)), count |-> Len(data)]

\* the stats memo
statsOf(data) ==
    IF Len(data) = 0 THEN StatsNull
    ELSE LET r == StatsLoop(data, 1, Infinity, NegInfinity, 0)
         IN  [isNull |-> FALSE, min |-> r.min, max |-> r.max,
              avg |-> NumDiv(r.sum, Len(data)), count |-> Len(data)]


(***************************************************************************)
(* The series builder on its own: each initial state is a response of the   *)
(* time-series request (the value of r.json(), whatever the declared type)  *)
(* shown by a page with the initial base, target and period; the memos are  *)
(* then computed, and recomputed when a period button is clicked.           *)
(***************************************************************************)
\* most dates in one response
MaxDates == 8

\* type Period = 7 | 30 | 90, and useState<Period>(30)
Periods == {7, 30, 90}
DefaultPeriod == 30

\* the first date of the responses: the dates run over the end of February
SeriesStart == DaysFromCivil(2024, 2, 26)
DateOfIndex(i) == isoDateUTC((SeriesStart + i - 1) * TicksPerDay)

\* the object of one date
RateObj(code, v) == JObj([k \in {code} |-> v])

\* the two objects the dates of one response choose from
SeriesMixes ==
    { <<RateObj(MXN, JNum(15)), RateObj(MXN, JNum(11))>>,
      <<RateObj(MXN, JNum(11)), RateObj(MXN, JNum(14))>>,
      <<RateObj(MXN, JNum(15)), RateObj(EUR, JNum(12))>>,
      <<RateObj(MXN, JNum(11)), JNull>>,
      <<RateObj(MXN, JNum(12)), RateObj(MXN, JStr(<<"1", "2">>))>>,
      <<RateObj(MXN, JNum(11)), RateObj(MXN, JNull)>>,
      <<RateObj(MXN, JNum(15)), RateObj(MXN, JNum(Infinity))>> }

Reverse(seq) == [i \in 1..Len(seq) |-> seq[Len(seq) + 1 - i]]

\* Object.entries of the responses: the dates ascending, or descending
SeriesInputs ==
    UNION { { [i \in 1..n |-> [date |-> DateOfIndex(i), obj |-> mix[pick[i]]]]
                : pick \in [1..n -> {1, 2}], mix \in SeriesMixes }
            : n \in 0..MaxDates }

InitSeries ==
    /\ localStorage = [k \in Keys |-> OtherItem]
    /\ pairs = <<>>
    /\ base = USD
    /\ target = MXN
    /\ msg = NoMsg
    /\ pc = "series"
    /\ io = "none"
    /\ failures = 0
    /\ last = "init"
    /\ period = DefaultPeriod
    /\ \E entries \in SeriesInputs : rates \in {entries, Reverse(entries)}
    /\ chartData = <<>>
    /\ stats = StatsNull
    /\ clock = 0
    /\ endDate = 0
    /\ startISO = <<>>
    /\ endISO = <<>>

\* the render that sees the response: the chartData memo, then the stats memo
SeriesBuild ==
    /\ pc = "series"
    /\ last = "init"
    /\ LET r == chartDataOf(rates, target, period) IN
          IF r.threw
          THEN pc' = "crashed" /\ UNCHANGED <<chartData, stats>>
          ELSE pc' = pc /\ chartData' = r.value /\ stats' = statsOf(r.value)
    /\ last' = "build"
    /\ UNCHANGED <<localStorage, pairs, base, target, msg, io, failures>>
    /\ UNCHANGED <<period, rates, clock, endDate, startISO, endISO>>

\* onClick={() => setPeriod(p)} and the render it causes
SeriesPeriod ==
    /\ pc = "series"
    /\ last = "build"
    /\ \E p \in Periods \ {period} :
          LET r == chartDataOf(rates, target, p) IN
          /\ period' = p
          /\ IF r.threw
             THEN pc' = "crashed" /\ UNCHANGED <<chartData, stats>>
             ELSE pc' = pc /\ chartData' = r.value /\ stats' = statsOf(r.value)
    /\ last' = "period"
    /\ UNCHANGED <<localStorage, pairs, base, target, msg, io, failures>>
    /\ UNCHANGED <<rates, clock, endDate, startISO, endISO>>

NextSeries == SeriesBuild \/ SeriesPeriod

SpecSeries == InitSeries /\ [][NextSeries]_vars


(***************************************************************************)
(* Vocabulary of the claims about the series.                               *)
(***************************************************************************)
\* the memos have been computed for the response
Built == pc = "series" /\ last \in {"build", "period"}

\* the value entry i has for the target
EntryValue(i) == OptIndex(rates[i].obj, target)

\* the entries whose value for the target is a finite number
ValidEntries == {i \in 1..Len(rates) : IsFiniteNumber(EntryValue(i))}

\* the day number of a date text: its place in the calendar
Chrono(iso) ==
    LET parts == Split(iso, <<>>)
    IN  DaysFromCivil(NumberOfDigits(parts[1], 0), NumberOfDigits(parts[2], 0),
                      NumberOfDigits(parts[3], 0))

Least(a, b) == IF a <= b THEN a ELSE b

\* the date and the rate of the points of a list, and of a set of entries
PointsOf(data) == {[date |-> data[i].date, rate |-> data[i].rate] : i \in 1..Len(data)}
EntriesOf(S) == {[date |-> rates[i].date, rate |-> EntryValue(i)] : i \in S}

\* the k chronologically latest of the valid entries
LatestValid(k) ==
    LET day == [i \in 1..Len(rates) |-> Chrono(rates[i].date)]
    IN  {i \in ValidEntries : Cardinality({j \in ValidEntries : day[j] > day[i]}) < k}

(***************************************************************************)
(* C11: for every raw series and every period the series is strictly        *)
(* ascending by date and consists of exactly the chronologically latest     *)
(* min(period, number of valid points) valid points, a valid point being    *)
(* an entry whose value for the target is a finite number; its length       *)
(* never exceeds the period.                                                *)
(***************************************************************************)
C11_LatestWindow ==
    Built =>
        LET k == Least(period, Cardinality(ValidEntries)) IN
        /\ Len(chartData) = k
        /\ Len(chartData) <= period
        /\ \A i \in 1..(Len(chartData) - 1) :
                Chrono(chartData[i].date) < Chrono(chartData[i + 1].date)
        /\ PointsOf(chartData) = EntriesOf(LatestValid(k))

(***************************************************************************)
(* C12: an entry of the raw series yields a point if and only if its value  *)
(* for the target is a finite number (the points being all kept when the    *)
(* series is no longer than the period), and the builder never throws.      *)
(***************************************************************************)
C12_PointIffFinite ==
    last \in {"build", "period"} =>
        /\ pc # "crashed"
        /\ \A i \in 1..Len(rates) :
              LET made == \E j \in 1..Len(chartData) : chartData[j].date = rates[i].date IN
              /\ made => IsFiniteNumber(EntryValue(i))
              /\ (Len(rates) <= period /\ IsFiniteNumber(EntryValue(i))) => made


\* the rates of the kept points
KeptRates == {chartData[i].rate.n : i \in 1..Len(chartData)}

\* the sum of the first n kept rates as the loop accumulates it: every
\* addition rounded
RECURSIVE RunningSum(_)
RunningSum(n) == IF n = 0 THEN 0 ELSE NumAdd(RunningSum(n - 1), chartData[n].rate.n)

\* the sum of the first n kept rates in exact arithmetic
RECURSIVE ExactSum(_)
ExactSum(n) == IF n = 0 THEN 0 ELSE ExactSum(n - 1) + chartData[n].rate.n

\* no addition of the loop rounds: the kept rates are finite and every partial
\* sum is a value of the number format
SumsExact ==
    /\ \A i \in 1..Len(chartData) : chartData[i].rate.n # Infinity
    /\ \A n \in 1..Len(chartData) : IsValue(ExactSum(n))

\* what C13 says of count, min, max and avg (the quotient of the sum the code
\* accumulated)
StatsOfKept ==
    /\ stats.isNull <=> Len(chartData) = 0
    /\ ~stats.isNull =>
          /\ stats.count = Len(chartData)
          /\ stats.min \in KeptRates
          /\ stats.max \in KeptRates
          /\ \A v \in KeptRates : stats.min <= v /\ v <= stats.max
          /\ stats.avg = NumDiv(RunningSum(Len(chartData)), stats.count)

(***************************************************************************)
(* C13 as stated: stats is absent exactly when no point is kept; otherwise  *)
(* count is the number of kept points, min and max are the smallest and     *)
(* the largest kept rate, avg is the sum of the kept rates divided by       *)
(* count, and min <= avg <= max.                                            *)
(***************************************************************************)
C13_Original ==
    Built => /\ StatsOfKept
             /\ ~stats.isNull => (stats.min <= stats.avg /\ stats.avg <= stats.max)

(***************************************************************************)
(* C13 as amended: the same of count, min, max and avg, avg being the       *)
(* rounded quotient of the sum as rounded after each addition; and          *)
(* min <= avg <= max whenever no addition rounds.                           *)
(***************************************************************************)
C13_Stats ==
    Built => /\ StatsOfKept
             /\ (~stats.isNull /\ SumsExact) =>
                    (stats.min <= stats.avg /\ stats.avg <= stats.max)

\* statistics of several different rates whose sum was rounded, with the
\* average strictly between the least and the largest
C13_Witness ==
    /\ Built
    /\ ~stats.isNull
    /\ stats.count >= 3
    /\ ~SumsExact
    /\ stats.min < stats.avg
    /\ stats.avg < stats.max


(***************************************************************************)
(* pages/History: the fetch window.  The window memo reads the clock        *)
(* twice, `new Date()` for end and `new Date()` inside daysAgoUTC for       *)
(* start, and is computed again only when period changes.  The clock        *)
(* advances on its own, between any two steps.                              *)
(*                                                                          *)
(*   pc   "render": the window memo is to be computed; "gotEnd": end is     *)
(*        read, start is not; "idle": the page is rendered                  *)
(***************************************************************************)
\* daysAgoUTC(period + 2)
WindowBuffer == 2

\* the UTC days the clock runs through: two pairs of consecutive days, over
\* the end of a February and over the end of a year
ClockDays ==
    { MakeDay(2024, 1, 29), MakeDay(2024, 1, 29) + 1,
      MakeDay(2024, 11, 31), MakeDay(2024, 11, 31) + 1 }

InitWindow ==
    /\ localStorage = [k \in Keys |-> OtherItem]
    /\ pairs = <<>>
    /\ base = USD
    /\ target = MXN
    /\ msg = NoMsg
    /\ pc = "render"
    /\ io = "none"
    /\ failures = 0
    /\ last = "init"
    /\ period = DefaultPeriod
    /\ rates = <<>>
    /\ chartData = <<>>
    /\ stats = StatsNull
    /\ clock \in {d * TicksPerDay + (TicksPerDay - 1) : d \in ClockDays}
    /\ endDate = 0
    /\ startISO = <<>>
    /\ endISO = <<>>

\* time passes
Tick ==
    /\ Day(clock + 1) \in ClockDays
    /\ clock' = clock + 1
    /\ last' = "tick"
    /\ UNCHANGED <<localStorage, pairs, base, target, msg, pc, io, failures>>
    /\ UNCHANGED <<period, rates, chartData, stats, endDate, startISO, endISO>>

\* const end = new Date()
WindowEnd ==
    /\ pc = "render"
    /\ endDate' = clock
    /\ pc' = "gotEnd"
    /\ last' = "end"
    /\ UNCHANGED <<localStorage, pairs, base, target, msg, io, failures>>
    /\ UNCHANGED <<period, rates, chartData, stats, clock, startISO, endISO>>

\* const start = daysAgoUTC(period + 2); return { startISO, endISO }
WindowStart ==
    /\ pc = "gotEnd"
    /\ startISO' = isoDateUTC(daysAgoUTC(clock, period + WindowBuffer))
    /\ endISO' = isoDateUTC(endDate)
    /\ pc' = "idle"
    /\ last' = "start"
    /\ UNCHANGED <<localStorage, pairs, base, target, msg, io, failures>>
    /\ UNCHANGED <<period, rates, chartData, stats, clock, endDate>>

\* onClick={() => setPeriod(p)}: the deps of the window memo change
WindowPeriod ==
    /\ pc = "idle"
    /\ \E p \in Periods \ {period} : period' = p
    /\ pc' = "render"
    /\ last' = "period"
    /\ UNCHANGED <<localStorage, pairs, base, target, msg, io, failures>>
    /\ UNCHANGED <<rates, chartData, stats, clock, endDate, startISO, endISO>>

\* onSwap: a render that keeps the window memo; the query key changes
OnSwap ==
    /\ pc = "idle"
    /\ base' = target
    /\ target' = base
    /\ last' = "swap"
    /\ UNCHANGED <<localStorage, pairs, msg, pc, io, failures, historyVars>>

\* queryFn: getTimeSeries(startISO, endISO, base, target), when enabled
Query ==
    /\ pc = "idle"
    /\ base # <<>> /\ target # <<>> /\ base # target
    /\ last # "query"
    /\ last' = "query"
    /\ UNCHANGED <<localStorage, pairs, base, target, msg, pc, io, failures, historyVars>>

NextWindow == Tick \/ WindowEnd \/ WindowStart \/ WindowPeriod \/ OnSwap \/ Query

SpecWindow == InitWindow /\ [][NextWindow]_vars

(***************************************************************************)
(* C14: for every period, the window a query of the history view uses has   *)
(* endDate equal to the current UTC calendar date and startDate exactly     *)
(* period + 2 calendar days before endDate, however the clock advances      *)
(* between the computation of the window and the query.                     *)
(***************************************************************************)
C14_WindowOfQuery ==
    last = "query" =>
        /\ period \in Periods
        /\ endISO = isoDateUTC(clock)
        /\ Chrono(endISO) - Chrono(startISO) = period + WindowBuffer


(***************************************************************************)
(* C15: removing the last pair leaves the in-memory watchlist empty, the    *)
(* effect that follows persists the empty array when its write goes         *)
(* through, and the loadWatchlist of the next session then returns the      *)
(* default [(USD, MXN)]: no session starts with an empty watchlist.         *)
(***************************************************************************)
EmptyArrayItem == Item(<<"[", "]">>)

C15_Step ==
    /\ (last' = "onRemove" /\ Len(pairs) = 1) => (pairs' = <<>> /\ pc' = "effect")
    /\ (last' = "effect" /\ pairs = <<>> /\ io' = "ok") => localStorage'[KEY] = EmptyArrayItem
    /\ (last' = "mount" /\ Stored = EmptyArrayItem) => pairs' = <<Pair(USD, MXN)>>
    /\ last' = "mount" => pairs' # <<>>

C15_EmptiedNotKept == [][C15_Step]_vars

\* a session in which every write went through has ended and left the empty
\* array: its user removed every pair (the first effect of a session stores
\* a list that is not empty)
C15_Witness ==
    /\ pc = "unmounted"
    /\ last = "reload"
    /\ failures = 0
    /\ Stored = EmptyArrayItem

(***************************************************************************)
(* C16: the first step after the first render is the persisting effect,     *)
(* before any handler; when its write goes through, the stored content,     *)
(* whatever it was (absent, malformed, not normalized, duplicated), is      *)
(* replaced by the serialization of the list loadWatchlist returned: the    *)
(* normalized list, the default list when nothing valid was stored.         *)
(***************************************************************************)
C16_Step ==
    last = "mount" =>
        /\ last' = "effect"
        /\ pairs' = pairs
        /\ io' = "ok" =>
              /\ localStorage'[KEY] = Item(JSONStringify(pairs))
              /\ IsNormalized(pairs)
              /\ C1_DefaultCase => pairs = <<Pair(USD, MXN)>>
              /\ (io = "ok" /\ StoredArray) =>
                    LET kept == DedupFirstSeen(Survivors(Parsed.value.a))
                    IN  pairs = IF kept = <<>> THEN <<Pair(USD, MXN)>> ELSE kept

C16_StartupOverwrites == [][C16_Step]_vars

\* the stored array of two elements with one key has been replaced by the
\* serialization of the one pair normalization keeps
C16_Witness ==
    /\ pc = "idle"
    /\ last = "effect"
    /\ io = "ok"
    /\ failures = 0
    /\ pairs = <<Pair(USD, MXNUSD)>>
    /\ Stored = Item(JSONStringify(<<Pair(USD, MXNUSD)>>))

=============================================================================
